---- MODULE Spec2Model ----
(***************************************************************************)
(* Model of vrdy_knihovna_to_ics.py: one run of main(), i.e.               *)
(*   fetch(LIST_URL) -> parse_listing(html) -> build_ics(events)           *)
(*   -> open(out, "w").write(ics) -> print("OK ...").                      *)
(*                                                                         *)
(* Text is modelled at character level: a Python str is a sequence of      *)
(* one-character strings.  Two letters outside ASCII are written by name:  *)
(* "i_acute" is U+00ED, "I_ACUTE" U+00CD, "a_acute" U+00E1, "A_ACUTE"      *)
(* U+00C1 and "en_dash" U+2013.  A parsed HTML document is the tree        *)
(* BeautifulSoup builds from it: a sequence of nodes, a node being         *)
(* [name, kids, text] (name "#text" for a NavigableString).                *)
(* A datetime is [day, min]: its date.toordinal() in the proleptic         *)
(* Gregorian calendar and its minute of that day.                          *)
(***************************************************************************)
EXTENDS Integers, Sequences, FiniteSets, TLC

VARIABLES pc, html, events, ics, file, stdout, exc

vars == <<pc, html, events, ics, file, stdout, exc>>

(***************************************************************************)
(* Bounds of the model.                                                    *)
(***************************************************************************)
\* largest number of headed sections in a generated structural document
MaxHeadings == 2
\* largest number of blanks written on each side of the "-" of a range
MaxPad == 1

(***************************************************************************)
(* Python str primitives.                                                  *)
(***************************************************************************)
Digits == <<"0", "1", "2", "3", "4", "5", "6", "7", "8", "9">>

IsDigit(c) == \E k \in 1..10 : Digits[k] = c

DigitVal(c) == (CHOOSE k \in 1..10 : Digits[k] = c) - 1

\* str.strip() and the regex class \s
IsSpace(c) == c \in {" ", "\n", "\t", "\r"}

UpperLetters ==
    <<"A", "B", "C", "D", "E", "F", "G", "H", "I", "J", "K", "L", "M", "N", "O",
      "P", "Q", "R", "S", "T", "U", "V", "W", "X", "Y", "Z", "I_ACUTE", "A_ACUTE">>

LowerLetters ==
    <<"a", "b", "c", "d", "e", "f", "g", "h", "i", "j", "k", "l", "m", "n", "o",
      "p", "q", "r", "s", "t", "u", "v", "w", "x", "y", "z", "i_acute", "a_acute">>

IsUpper(c) == \E k \in 1..Len(UpperLetters) : UpperLetters[k] = c

IsLower(c) == \E k \in 1..Len(LowerLetters) : LowerLetters[k] = c

\* the regex class \w
IsWordChar(c) == IsDigit(c) \/ IsUpper(c) \/ IsLower(c) \/ c = "_"

\* str.lower() on one character
LowerChar(c) ==
    IF IsUpper(c)
    THEN LowerLetters[CHOOSE k \in 1..Len(UpperLetters) : UpperLetters[k] = c]
    ELSE c

Lower(s) == [i \in 1..Len(s) |-> LowerChar(s[i])]

\* sub == s[i : i+len(sub)]
MatchAt(s, sub, i) ==
    /\ i + Len(sub) - 1 <= Len(s)
    /\ \A k \in 1..Len(sub) : s[i + k - 1] = sub[k]

\* sub in s
Contains(s, sub) == \E i \in 1..(Len(s) + 1) : MatchAt(s, sub, i)

\* s.startswith(sub)
StartsWith(s, sub) == MatchAt(s, sub, 1)

RECURSIVE LStrip(_)
LStrip(s) == IF s # <<>> /\ IsSpace(Head(s)) THEN LStrip(Tail(s)) ELSE s

RECURSIVE RStrip(_)
RStrip(s) ==
    IF s # <<>> /\ IsSpace(s[Len(s)]) THEN RStrip(SubSeq(s, 1, Len(s) - 1)) ELSE s

\* str.strip()
Strip(s) == RStrip(LStrip(s))

\* sep.join(parts)
RECURSIVE Join(_, _)
Join(parts, sep) ==
    IF parts = <<>> THEN <<>>
    ELSE IF Len(parts) = 1 THEN parts[1]
    ELSE parts[1] \o sep \o Join(Tail(parts), sep)

\* str.splitlines(): lines end at "\n"; a final "\n" opens no further line
RECURSIVE SplitLines(_)
SplitLines(s) ==
    IF s = <<>> THEN <<>>
    ELSE IF \E i \in 1..Len(s) : s[i] = "\n"
         THEN LET i == CHOOSE k \in 1..Len(s) :
                         s[k] = "\n" /\ \A j \in 1..(k - 1) : s[j] # "\n"
              IN  <<SubSeq(s, 1, i - 1)>> \o SplitLines(SubSeq(s, i + 1, Len(s)))
         ELSE <<s>>

(***************************************************************************)
(* datetime.                                                               *)
(***************************************************************************)
IsLeap(y) == (y % 4 = 0) /\ ((y % 100 # 0) \/ (y % 400 = 0))

DaysInMonth(y, m) ==
    IF m = 2 THEN (IF IsLeap(y) THEN 29 ELSE 28)
    ELSE IF m \in {4, 6, 9, 11} THEN 30 ELSE 31

RECURSIVE DaysBeforeMonth(_, _)
DaysBeforeMonth(y, m) ==
    IF m = 1 THEN 0 ELSE DaysBeforeMonth(y, m - 1) + DaysInMonth(y, m - 1)

DaysBeforeYear(y) ==
    365 * (y - 1) + ((y - 1) \div 4) - ((y - 1) \div 100) + ((y - 1) \div 400)

\* datetime(y, m, d, h, mi)
DT(y, m, d, h, mi) ==
    [day |-> DaysBeforeYear(y) + DaysBeforeMonth(y, m) + d, min |-> h * 60 + mi]

\* a < b on datetimes
Before(a, b) == a.day < b.day \/ (a.day = b.day /\ a.min < b.min)

\* the day after datetime.max (year 9999 is datetime.MAXYEAR)
DayLimit == DaysBeforeYear(10000) + 1

\* no datetime: the value of a name that was not assigned one
NoDT == [day |-> 0, min |-> 0]

\* outcome of an expression that yields a datetime or raises
Value(v) == [ok |-> TRUE, val |-> v, exc |-> "none"]
Raise(e) == [ok |-> FALSE, val |-> NoDT, exc |-> e]

\* dt + timedelta(minutes=n): OverflowError past datetime.max
AddDelta(dt, n) ==
    LET sum == [day |-> dt.day + ((dt.min + n) \div 1440), min |-> (dt.min + n) % 1440]
    IN  IF sum.day >= DayLimit THEN Raise("OverflowError") ELSE Value(sum)

Num2(s, i) == DigitVal(s[i]) * 10 + DigitVal(s[i + 1])

Num4(s, i) == Num2(s, i) * 100 + Num2(s, i + 2)

\* whether day.month.year names a day of the calendar datetime accepts
ValidDate(y, m, d) ==
    /\ y >= 1
    /\ m >= 1 /\ m <= 12
    /\ d >= 1 /\ d <= DaysInMonth(y, m)

ValidTime(h, mi) == h <= 23 /\ mi <= 59

\* datetime.strptime(d, "%d.%m.%Y"), d being ten characters DD.MM.YYYY
StrpDate(d) ==
    LET dd == Num2(d, 1)
        mm == Num2(d, 4)
        yy == Num4(d, 7)
    IN  IF ValidDate(yy, mm, dd) THEN Value(DT(yy, mm, dd, 0, 0))
        ELSE Raise("ValueError")

\* datetime.strptime(f"{d} {t}", "%d.%m.%Y %H:%M"), t being five characters HH:MM
StrpDateTime(d, t) ==
    LET dd == Num2(d, 1)
        mm == Num2(d, 4)
        yy == Num4(d, 7)
        hh == Num2(t, 1)
        mi == Num2(t, 4)
    IN  IF ValidDate(yy, mm, dd) /\ ValidTime(hh, mi)
        THEN Value(DT(yy, mm, dd, hh, mi))
        ELSE Raise("ValueError")

(***************************************************************************)
(* The regular expressions of parse_listing.                               *)
(***************************************************************************)
\* \d{2}\.\d{2}\.\d{4} matches s at position i
DateAt(s, i) ==
    /\ i >= 1 /\ i + 9 <= Len(s)
    /\ \A k \in {0, 1, 3, 4, 6, 7, 8, 9} : IsDigit(s[i + k])
    /\ s[i + 2] = "." /\ s[i + 5] = "."

\* \d{2}:\d{2} matches s at position i
TimeAt(s, i) ==
    /\ i >= 1 /\ i + 4 <= Len(s)
    /\ \A k \in {0, 1, 3, 4} : IsDigit(s[i + k])
    /\ s[i + 2] = ":"

\* position reached by a greedy \s* started at position i
RECURSIVE SkipSpace(_, _)
SkipSpace(s, i) == IF i <= Len(s) /\ IsSpace(s[i]) THEN SkipSpace(s, i + 1) ELSE i

\* re.search(r"\d{2}\.\d{2}\.\d{4}", line)
HasDate(line) == \E i \in 1..Len(line) : DateAt(line, i)

\* (\d{2}\.\d{2}\.\d{4})\s*-\s*(\d{2}\.\d{2}\.\d{4}) matches s at position i
RangeAt(s, i) ==
    /\ DateAt(s, i)
    /\ LET j == SkipSpace(s, i + 10)
       IN  /\ j <= Len(s)
           /\ s[j] = "-"
           /\ DateAt(s, SkipSpace(s, j + 1))

NoMatch == [found |-> FALSE, d1 |-> <<>>, d2 |-> <<>>]

\* re.search of the range pattern: the groups of the leftmost match
RangeSearch(s) ==
    IF \E i \in 1..Len(s) : RangeAt(s, i)
    THEN LET i == CHOOSE k \in 1..Len(s) :
                    RangeAt(s, k) /\ \A l \in 1..(k - 1) : ~RangeAt(s, l)
             j == SkipSpace(s, SkipSpace(s, i + 10) + 1)
         IN  [found |-> TRUE, d1 |-> SubSeq(s, i, i + 9), d2 |-> SubSeq(s, j, j + 9)]
    ELSE NoMatch

NoMatch2 == [found |-> FALSE, d |-> <<>>, t1 |-> <<>>, t2 |-> <<>>]

\* re.search of (\d{2}\.\d{2}\.\d{4})(?:\s+(\d{2}:\d{2}))?\s*(?:-\s*(\d{2}:\d{2}))?
\* the groups of the leftmost match; an absent group (None) is <<>>
SingleSearch(s) ==
    IF HasDate(s)
    THEN LET i  == CHOOSE k \in 1..Len(s) :
                     DateAt(s, k) /\ \A l \in 1..(k - 1) : ~DateAt(s, l)
             j  == i + 10
             k1 == SkipSpace(s, j)
             g1 == k1 > j /\ TimeAt(s, k1)
             p  == IF g1 THEN k1 + 5 ELSE j
             q  == SkipSpace(s, p)
             k2 == SkipSpace(s, q + 1)
             g2 == q <= Len(s) /\ s[q] = "-" /\ TimeAt(s, k2)
         IN  [found |-> TRUE,
              d  |-> SubSeq(s, i, i + 9),
              t1 |-> IF g1 THEN SubSeq(s, k1, k1 + 4) ELSE <<>>,
              t2 |-> IF g2 THEN SubSeq(s, k2, k2 + 4) ELSE <<>>]
    ELSE NoMatch2

(***************************************************************************)
(* parse_listing, lines 84-105: (start, end) of a term text.               *)
(***************************************************************************)
Resolved(s, e) == [kind |-> "ok", start |-> s, end |-> e, exc |-> "none"]
Unresolved == [kind |-> "none", start |-> NoDT, end |-> NoDT, exc |-> "none"]
Raised(e) == [kind |-> "raise", start |-> NoDT, end |-> NoDT, exc |-> e]

\* start = a; end = b, where a and b are outcomes evaluated in this order
Both(a, b) ==
    IF ~a.ok THEN Raised(a.exc)
    ELSE IF ~b.ok THEN Raised(b.exc)
    ELSE Resolved(a.val, b.val)

\* start = a; end = start + timedelta(minutes=n)
StartPlus(a, n) ==
    IF ~a.ok THEN Raised(a.exc) ELSE Both(a, AddDelta(a.val, n))

\* end = strptime(d2) + timedelta(days=1)
EndOfRange(d2) ==
    LET e == StrpDate(d2) IN IF e.ok THEN AddDelta(e.val, 1440) ELSE e

\* RangeOfMatch with the single-pattern attempt made first: a term text
\* holding a date range is then read as the bare first date
RangeOfMatchSingleFirst(m, m2) ==
    IF m2.found
    THEN IF m2.t1 # <<>> /\ m2.t2 # <<>>
         THEN Both(StrpDateTime(m2.d, m2.t1), StrpDateTime(m2.d, m2.t2))
         ELSE IF m2.t1 # <<>>
         THEN StartPlus(StrpDateTime(m2.d, m2.t1), 120)
         ELSE StartPlus(StrpDate(m2.d), 1440)
    ELSE IF m.found
         THEN Both(StrpDate(m.d1), EndOfRange(m.d2))
         ELSE Unresolved

\* lines 87-105, m and m2 being the matches of the two patterns
RangeOfMatch(m, m2) ==
    IF m.found
    THEN Both(StrpDate(m.d1), EndOfRange(m.d2))
    ELSE IF m2.found
         THEN IF m2.t1 # <<>> /\ m2.t2 # <<>>
              THEN Both(StrpDateTime(m2.d, m2.t1), StrpDateTime(m2.d, m2.t2))
              ELSE IF m2.t1 # <<>>
              THEN StartPlus(StrpDateTime(m2.d, m2.t1), 120)
              ELSE StartPlus(StrpDate(m2.d), 1440)
         ELSE Unresolved

TermToRange(term_text) == RangeOfMatch(RangeSearch(term_text), SingleSearch(term_text))

(***************************************************************************)
(* The document tree and BeautifulSoup's get_text.                         *)
(***************************************************************************)
Text(t) == [name |-> "#text", kids |-> <<>>, text |-> t]

Elem(n, k) == [name |-> n, kids |-> k, text |-> <<>>]

\* Tag._all_strings(strip=True): the stripped, non-empty strings below a node
RECURSIVE AllStrings(_)
RECURSIVE AllStringsOf(_)
AllStrings(node) ==
    IF node.name = "#text"
    THEN (IF Strip(node.text) = <<>> THEN <<>> ELSE <<Strip(node.text)>>)
    ELSE AllStringsOf(node.kids)

AllStringsOf(nodes) ==
    IF nodes = <<>> THEN <<>> ELSE AllStrings(Head(nodes)) \o AllStringsOf(Tail(nodes))

\* node.get_text(sep, strip=True)
GetText(node, sep) == Join(AllStrings(node), sep)

\* soup.find_all("h3"): every h3 in document order, each with the sequence of
\* its parent's children (sibs) and its own position in it (idx)
RECURSIVE FindAllH3(_)
RECURSIVE FindAllH3From(_, _)
FindAllH3(sibs) == FindAllH3From(sibs, 1)

FindAllH3From(sibs, i) ==
    IF i > Len(sibs) THEN <<>>
    ELSE (IF sibs[i].name = "h3" THEN <<[sibs |-> sibs, idx |-> i]>> ELSE <<>>)
         \o FindAllH3(sibs[i].kids)
         \o FindAllH3From(sibs, i + 1)

\* lines 44-53: the texts of the siblings after position i, up to the next h3
RECURSIVE CollectBlock(_, _)
CollectBlock(sibs, i) ==
    IF i > Len(sibs) THEN <<>>
    ELSE IF sibs[i].name = "h3" THEN <<>>
    ELSE IF sibs[i].name \in {"ul", "p", "div", "span"}
              /\ GetText(sibs[i], <<" ">>) # <<>>
         THEN <<GetText(sibs[i], <<" ">>)>> \o CollectBlock(sibs, i + 1)
         ELSE CollectBlock(sibs, i + 1)

\* lines 43-56: title and blob of one h3
Segment(h) ==
    [title |-> GetText(h.sibs[h.idx], <<>>),
     blob  |-> Join(CollectBlock(h.sibs, h.idx + 1), <<" ", "\n">>)]

(***************************************************************************)
(* parse_listing, field extraction.                                        *)
(***************************************************************************)
Termin == <<"T", "e", "r", "m", "i_acute", "n">>

neuveden == <<"n", "e", "u", "v", "e", "d", "e", "n">>

TerminNeuveden == Termin \o <<" ">> \o neuveden

Knihovna == <<"K", "n", "i", "h", "o", "v", "n", "a">>

Zajezd == <<"Z", "a_acute", "j", "e", "z", "d">>

DefaultLocation == "Knihovna F. V. Lorence Vrdy"

LIST_URL == "https://www.knihovnavrdy.cz/akce"

\* \bword\b matches s at position i, ignoring case
WordAt(s, word, i) ==
    /\ MatchAt(Lower(s), Lower(word), i)
    /\ (i = 1 \/ ~IsWordChar(s[i - 1]))
    /\ (i + Len(word) > Len(s) \/ ~IsWordChar(s[i + Len(word)]))

\* lines 59-62: the capitalized first match of \b(Knihovna|zajezd)\b, or None (<<>>)
LocationOf(blob) ==
    IF \E i \in 1..Len(blob) : WordAt(blob, Knihovna, i) \/ WordAt(blob, Zajezd, i)
    THEN LET i == CHOOSE k \in 1..Len(blob) :
                    /\ WordAt(blob, Knihovna, k) \/ WordAt(blob, Zajezd, k)
                    /\ \A l \in 1..(k - 1) :
                          ~(WordAt(blob, Knihovna, l) \/ WordAt(blob, Zajezd, l))
         IN  IF WordAt(blob, Knihovna, i) THEN Knihovna ELSE Zajezd
    ELSE <<>>

\* FindTerm without the break of line 78: the last date line wins
RECURSIVE FindTermLast(_)
FindTermLast(lines) ==
    IF lines = <<>> THEN <<>>
    ELSE IF Contains(Head(lines), Termin) /\ Contains(Lower(Head(lines)), neuveden)
         THEN TerminNeuveden
    ELSE IF HasDate(Head(lines)) /\ FindTermLast(Tail(lines)) = <<>>
         THEN Strip(Head(lines))
    ELSE FindTermLast(Tail(lines))

\* lines 72-78: the term text of the lines, None being <<>>
RECURSIVE FindTerm(_)
FindTerm(lines) ==
    IF lines = <<>> THEN <<>>
    ELSE IF Contains(Head(lines), Termin) /\ Contains(Lower(Head(lines)), neuveden)
         THEN TerminNeuveden
    ELSE IF HasDate(Head(lines)) THEN Strip(Head(lines))
    ELSE FindTerm(Tail(lines))

Skip == [kind |-> "skip", exc |-> "none", event |-> <<>>]

\* line 120
LocationOr(location) == IF location # <<>> THEN location ELSE <<DefaultLocation>>

\* lines 107-123, r being the outcome of lines 84-105
EventOf(seg, term_text, r) ==
    IF r.kind = "raise" THEN [kind |-> "raise", exc |-> r.exc, event |-> <<>>]
    ELSE IF r.kind = "none" THEN Skip
    ELSE [kind |-> "event", exc |-> "none",
          event |-> [uid         |-> [hash_of |-> seg.title \o term_text],
                     title       |-> seg.title,
                     start       |-> r.start,
                     end         |-> r.end,
                     location    |-> LocationOr(LocationOf(seg.blob)),
                     description |-> Strip(seg.blob),
                     url         |-> LIST_URL]]

\* lines 80-123, term_text being the outcome of lines 68-78
ExtractTerm(seg, term_text) ==
    IF term_text # <<>> /\ StartsWith(Lower(term_text), Lower(TerminNeuveden))
    THEN Skip
    ELSE IF term_text # <<>>
    THEN EventOf(seg, term_text, TermToRange(term_text))
    ELSE Skip

\* lines 58-123: what one (title, blob) pair contributes
Extract(seg) == ExtractTerm(seg, FindTerm(SplitLines(seg.blob)))

\* the loop of line 42 from heading k on, x being what heading k - 1
\* contributed; an exception leaves the function
RECURSIVE ParseFrom(_, _, _, _)
ParseFrom(hs, k, acc, x) ==
    IF x.kind = "raise" THEN [exc |-> x.exc, events |-> <<>>]
    ELSE IF k > Len(hs)
    THEN [exc |-> "none", events |-> IF x.kind = "event" THEN Append(acc, x.event) ELSE acc]
    ELSE ParseFrom(hs, k + 1,
                   IF x.kind = "event" THEN Append(acc, x.event) ELSE acc,
                   Extract(Segment(hs[k])))

parse_listing(doc) == ParseFrom(FindAllH3(doc), 1, <<>>, Skip)

(***************************************************************************)
(* build_ics.                                                              *)
(***************************************************************************)
TZID == "Europe/Prague"

CRLF == <<"\r\n">>

\* lines 134-142: the lines before the first event
Preamble ==
    << <<"BEGIN:VCALENDAR">>,
       <<"PRODID:-//Vrdy Knihovna Scraper//CZ">>,
       <<"VERSION:2.0">>,
       <<"X-WR-TIMEZONE:", TZID>>,
       <<"CALSCALE:GREGORIAN">>,
       <<"METHOD:PUBLISH">>,
       <<"X-WR-CALNAME:Knihovna Vrdy ", "en_dash", " Akce">> >>

\* lines 132-165.  The first event whose start and end are set reaches line
\* 147, which calls ics_escape; the module neither defines nor imports that
\* name, so the call raises NameError.  parse_listing sets start and end of
\* every event it returns, so only an empty list passes the loop.
build_ics(evs) ==
    IF evs = <<>>
    THEN [exc |-> "none", text |-> Join(Preamble \o << <<"END:VCALENDAR">> >>, CRLF)]
    ELSE [exc |-> "NameError", text |-> <<>>]

(***************************************************************************)
(* The pages the listing URL may serve.                                    *)
(***************************************************************************)
Fmt2(n) == <<Digits[(n \div 10) + 1], Digits[(n % 10) + 1]>>

Fmt4(n) == Fmt2(n \div 100) \o Fmt2(n % 100)

\* a date <<day, month, year>> written DD.MM.YYYY
DateStr(d) == Fmt2(d[1]) \o <<".">> \o Fmt2(d[2]) \o <<".">> \o Fmt4(d[3])

\* a time <<hour, minute>> written HH:MM
TimeStr(t) == Fmt2(t[1]) \o <<":">> \o Fmt2(t[2])

Blanks(n) == [i \in 1..n |-> " "]

DatePool == {<<10, 9, 2025>>, <<12, 9, 2025>>, <<31, 12, 9999>>, <<99, 13, 2025>>}

TimePool == {<<19, 0>>, <<21, 10>>, <<25, 0>>}

PrefixPool == {<<>>, <<"o", "d", " ">>}

\* the term lines written on the page, by what the author wrote
TermShapes ==
    [kind : {"range"}, pre : PrefixPool, d1 : DatePool, d2 : DatePool,
     t1 : {<<19, 0>>}, t2 : {<<19, 0>>}, pad : 0..MaxPad]
    \cup
    [kind : {"timedrange"}, pre : PrefixPool, d1 : DatePool, d2 : {<<10, 9, 2025>>},
     t1 : TimePool, t2 : TimePool, pad : 0..MaxPad]
    \cup
    [kind : {"timed"}, pre : PrefixPool, d1 : DatePool, d2 : {<<10, 9, 2025>>},
     t1 : TimePool, t2 : {<<19, 0>>}, pad : {0}]
    \cup
    [kind : {"bare"}, pre : PrefixPool, d1 : DatePool, d2 : {<<10, 9, 2025>>},
     t1 : {<<19, 0>>}, t2 : {<<19, 0>>}, pad : {0}]

Render(sh) ==
    sh.pre \o
    CASE sh.kind = "range" ->
           DateStr(sh.d1) \o Blanks(sh.pad) \o <<"-">> \o Blanks(sh.pad) \o DateStr(sh.d2)
      [] sh.kind = "timedrange" ->
           DateStr(sh.d1) \o <<" ">> \o TimeStr(sh.t1)
             \o Blanks(sh.pad) \o <<"-">> \o Blanks(sh.pad) \o TimeStr(sh.t2)
      [] sh.kind = "timed" -> DateStr(sh.d1) \o <<" ">> \o TimeStr(sh.t1)
      [] sh.kind = "bare" -> DateStr(sh.d1)

H3(t) == Elem("h3", IF t = <<>> THEN <<>> ELSE <<Text(t)>>)

P(t) == Elem("p", <<Text(t)>>)

\* one heading and one paragraph holding a term line
TermDoc(sh) == <<H3(<<"A">>), P(Render(sh))>>

TermDocs == {TermDoc(sh) : sh \in TermShapes}

Date1 == DateStr(<<10, 9, 2025>>)

Timed2 == DateStr(<<12, 9, 2025>>) \o <<" ">> \o TimeStr(<<19, 0>>)

BadDate == DateStr(<<99, 13, 2025>>)

\* the sections structural documents are built from
SectionPool ==
    << <<H3(<<"A">>), Elem("ul", <<Elem("li", <<Text(Knihovna)>>)>>), P(Date1)>>,
       <<H3(<<" ", "B">>), P(Timed2), P(Date1)>>,
       <<H3(<<"A">>), P(TerminNeuveden), P(Date1)>>,
       <<H3(<<"B">>), P(Lower(TerminNeuveden)), P(Date1)>>,
       <<H3(<<"A">>), P(<<"T", "E", "R", "M", "I_ACUTE", "N", " ",
                           "N", "E", "U", "V", "E", "D", "E", "N">>), P(Timed2)>>,
       <<H3(<<" ">>), P(Date1)>>,
       <<H3(<<>>), Text(<<"\n">>), P(Timed2)>>,
       <<H3(<<"A">>), P(BadDate), P(Date1)>>,
       <<H3(<<"A">>), Elem("div", <<H3(<<"B">>), P(Date1)>>)>>,
       <<H3(<<"B">>), Text(Date1), Elem("table", <<P(Date1)>>)>>,
       <<H3(<<"A">>), Elem("span", <<Text(<<"z", "a_acute", "j", "e", "z", "d",
                                           "\n">> \o Timed2)>>)>>,
       <<H3(<<"B">>), P(Lower(TerminNeuveden) \o <<" ">> \o Date1)>>,
       <<H3(<<"A">>)>> >>

RECURSIVE SectionSeqs(_)
SectionSeqs(n) ==
    IF n = 0 THEN {<<>>}
    ELSE LET shorter == SectionSeqs(n - 1)
         IN  shorter \cup
             {d \o SectionPool[k] : d \in shorter, k \in 1..Len(SectionPool)}

\* documents of up to MaxHeadings sections
StructDocs == SectionSeqs(MaxHeadings)

Docs == TermDocs \cup StructDocs

(***************************************************************************)
(* main.                                                                   *)
(***************************************************************************)
Init ==
    /\ pc = "start"
    /\ html = <<>>
    /\ events = <<>>
    /\ ics = <<>>
    /\ file = <<>>
    /\ stdout = <<>>
    /\ exc = "none"

\* line 173, fetch returns the page
MainFetch ==
    /\ pc = "start"
    /\ \E doc \in Docs : html' = <<doc>>
    /\ pc' = "fetched"
    /\ UNCHANGED <<events, ics, file, stdout, exc>>

FetchErrors == {"HTTPError", "Timeout", "ConnectionError"}

\* MainFetchRaises with the exception caught and the run going on with an
\* empty page
MainFetchRaisesCaught ==
    /\ pc = "start"
    /\ \E e \in FetchErrors : exc' = e
    /\ html' = << <<>> >>
    /\ pc' = "fetched"
    /\ UNCHANGED <<events, ics, file, stdout>>

\* line 173, fetch raises: requests.get fails or raise_for_status finds a
\* status that is no success
MainFetchRaises ==
    /\ pc = "start"
    /\ \E e \in FetchErrors : exc' = e
    /\ pc' = "aborted"
    /\ UNCHANGED <<html, events, ics, file, stdout>>

\* line 174
MainParse ==
    /\ pc = "fetched"
    /\ \E r \in {parse_listing(html[1])} :
           IF r.exc = "none"
           THEN /\ events' = <<r.events>>
                /\ pc' = "parsed"
                /\ exc' = exc
           ELSE /\ events' = events
                /\ pc' = "aborted"
                /\ exc' = r.exc
    /\ UNCHANGED <<html, ics, file, stdout>>

\* line 176
MainBuild ==
    /\ pc = "parsed"
    /\ \E r \in {build_ics(events[1])} :
           IF r.exc = "none"
           THEN /\ ics' = <<r.text>>
                /\ pc' = "built"
                /\ exc' = exc
           ELSE /\ ics' = ics
                /\ pc' = "aborted"
                /\ exc' = r.exc
    /\ UNCHANGED <<html, events, file, stdout>>

\* lines 177-178: newline="\n" writes the text as it is
MainWrite ==
    /\ pc = "built"
    /\ file' = <<ics[1]>>
    /\ pc' = "written"
    /\ UNCHANGED <<html, events, ics, stdout, exc>>

\* line 177, open raises
MainOpenRaises ==
    /\ pc = "built"
    /\ exc' = "OSError"
    /\ pc' = "aborted"
    /\ UNCHANGED <<html, events, ics, file, stdout>>

\* line 179
MainPrint ==
    /\ pc = "written"
    /\ stdout' = Append(stdout, [ok |-> TRUE, count |-> Len(events[1])])
    /\ pc' = "done"
    /\ UNCHANGED <<html, events, ics, file, exc>>

Next ==
    \/ MainFetch
    \/ MainFetchRaises
    \/ MainParse
    \/ MainBuild
    \/ MainWrite
    \/ MainOpenRaises
    \/ MainPrint

Spec == Init /\ [][Next]_vars

(***************************************************************************)
(* Properties.                                                             *)
(***************************************************************************)
\* parse_listing has returned its list
Parsed == events # <<>>

\* parse_listing was called and has returned or raised
ParseCalled == pc \notin {"start", "fetched"} /\ exc \notin FetchErrors

\* build_ics was called and has returned or raised
BuildCalled == Parsed /\ pc # "parsed"

\* C1: every event parse_listing returns ends strictly after it starts.
C1_EndAfterStart ==
    Parsed => \A i \in 1..Len(events[1]) : Before(events[1][i].start, events[1][i].end)

\* C2: parse_listing never raises: once called, it has returned a list.
C2_ParseNeverRaises == ParseCalled => Parsed

\* a line that says "Termin neuveden", the letters in any case
SaysNoDate(line) == Contains(Lower(line), Lower(TerminNeuveden))

\* the term line of a block: its first line that says no date or holds a date
IsTermLine(lines, k) ==
    /\ SaysNoDate(lines[k]) \/ HasDate(lines[k])
    /\ \A j \in 1..(k - 1) : ~(SaysNoDate(lines[j]) \/ HasDate(lines[j]))

\* C3: no returned event comes from a block whose term line says "Termin
\* neuveden" in any letter case, whatever dates later lines hold.
C3_NoDateNeverListed ==
    Parsed =>
      \A i \in 1..Len(events[1]) :
        \A lines \in {SplitLines(events[1][i].description)} :
          \A k \in 1..Len(lines) : IsTermLine(lines, k) => ~SaysNoDate(lines[k])

\* the real dates and times of the pools
RealDate(d) == d[2] \in 1..12 /\ d[1] \in 1..DaysInMonth(d[3], d[2])

RealTime(t) == t[1] \in 0..23 /\ t[2] \in 0..59

LastDay(d) == d = <<31, 12, 9999>>

Midnight(d) == DT(d[3], d[2], d[1], 0, 0)

At(d, t) == DT(d[3], d[2], d[1], t[1], t[2])

\* the table of the four patterns, read off what the author wrote
Expected(sh) ==
    CASE sh.kind = "range" ->
           [ok    |-> RealDate(sh.d1) /\ RealDate(sh.d2) /\ ~LastDay(sh.d2),
            start |-> Midnight(sh.d1),
            end   |-> [day |-> Midnight(sh.d2).day + 1, min |-> 0]]
      [] sh.kind = "timedrange" ->
           [ok    |-> RealDate(sh.d1) /\ RealTime(sh.t1) /\ RealTime(sh.t2),
            start |-> At(sh.d1, sh.t1),
            end   |-> At(sh.d1, sh.t2)]
      [] sh.kind = "timed" ->
           [ok    |-> RealDate(sh.d1) /\ RealTime(sh.t1),
            start |-> At(sh.d1, sh.t1),
            end   |-> At(sh.d1, <<sh.t1[1] + 2, sh.t1[2]>>)]
      [] sh.kind = "bare" ->
           [ok    |-> RealDate(sh.d1) /\ ~LastDay(sh.d1),
            start |-> Midnight(sh.d1),
            end   |-> [day |-> Midnight(sh.d1).day + 1, min |-> 0]]

C5_TitleNonEmpty ==
    Parsed => \A i \in 1..Len(events[1]) : events[1][i].title # <<>>

Count(text, piece) == Cardinality({k \in 1..Len(text) : text[k] = piece})

\* C6: for every list of events build_ics returns a document that begins with
\* BEGIN:VCALENDAR, ends with END:VCALENDAR, holds one BEGIN:VEVENT and one
\* END:VEVENT per event, and breaks its lines with CRLF only.
C6_DocumentWellFormed ==
    BuildCalled =>
      /\ ics # <<>>
      /\ Head(ics[1]) = "BEGIN:VCALENDAR"
      /\ ics[1][Len(ics[1])] = "END:VCALENDAR"
      /\ Count(ics[1], "BEGIN:VEVENT") = Len(events[1])
      /\ Count(ics[1], "END:VEVENT") = Len(events[1])
      /\ \A k \in 1..Len(ics[1]) : ics[1][k] \notin {"\n", "\r"}

\* text.replace(c, by) for a one-character c
RECURSIVE Replace(_, _, _)
Replace(text, c, by) ==
    IF text = <<>> THEN <<>>
    ELSE (IF Head(text) = c THEN by ELSE <<Head(text)>>) \o Replace(Tail(text), c, by)

\* the escaping section 4.4 of the specification describes
IcsEscape(text) ==
    Replace(Replace(Replace(Replace(text,
        "\\", <<"\\", "\\">>), "\n", <<"\\", "n">>), ";", <<"\\", ";">>), ",", <<"\\", ",">>)

\* C7: the document build_ics returns holds, for every event, its title and
\* description escaped: backslash doubled first, then newline, semicolon and
\* comma each replaced by backslash-n, backslash-semicolon, backslash-comma.
C7_FieldsEscaped ==
    (BuildCalled /\ events[1] # <<>>) =>
      /\ ics # <<>>
      /\ \A i \in 1..Len(events[1]) :
           /\ Contains(ics[1], <<"SUMMARY:">> \o IcsEscape(events[1][i].title) \o CRLF)
           /\ Contains(ics[1],
                <<"DESCRIPTION:">> \o IcsEscape(events[1][i].description) \o CRLF)

\* C8: the output file is written, and the success line printed, only after
\* fetch, parse_listing and build_ics have all returned, and it holds what
\* build_ics returned; a run whose fetch failed has ended with no file written
\* and nothing printed.
C8_WriteOnlyAfterSuccess ==
    /\ (file # <<>> \/ stdout # <<>>) =>
         /\ html # <<>> /\ events # <<>> /\ ics # <<>>
         /\ exc = "none"
         /\ file = ics
    /\ exc \in FetchErrors =>
         /\ file = <<>> /\ stdout = <<>>
         /\ pc = "aborted"
         /\ ~ENABLED Next

\* a run that wrote its file and printed its line
C8_Witness == pc = "done" /\ file # <<>> /\ Len(stdout) = 1

\* the first line of a block that holds a date
IsFirstDateLine(lines, k) ==
    HasDate(lines[k]) /\ \A j \in 1..(k - 1) : ~HasDate(lines[j])

\* C9: with no earlier line saying "neuveden", the start and end of an event
\* are those of the first line of its block that holds a date, and of no
\* later line; a first date line that gives no start and end gives no event.
C9_FirstDateLineOnly ==
    Parsed =>
      \A i \in 1..Len(events[1]) :
        \A lines \in {SplitLines(events[1][i].description)} :
          \A k \in 1..Len(lines) :
            (/\ IsFirstDateLine(lines, k)
             /\ \A j \in 1..(k - 1) : ~Contains(Lower(lines[j]), neuveden))
            => \E r \in {TermToRange(Strip(lines[k]))} :
                 /\ r.kind = "ok"
                 /\ events[1][i].start = r.start
                 /\ events[1][i].end = r.end

\* an event of a block with two date lines that differ
C9_Witness ==
    /\ pc = "parsed"
    /\ \E i \in 1..Len(events[1]) :
         \E lines \in {SplitLines(events[1][i].description)} :
           /\ Len(lines) = 2
           /\ HasDate(lines[1]) /\ HasDate(lines[2])
           /\ Strip(lines[1]) # Strip(lines[2])

\* C10: the block parse_listing used for a heading holds no text of a later
\* heading: the title of a heading found later in the document is no part of
\* the blob of an earlier one.  (The generated pages write the letters A and B in titles
\* only.)
C10_BlockExcludesLaterHeadings ==
    ParseCalled =>
      \A hs \in {FindAllH3(html[1])} :
        \A k \in 1..Len(hs) : \A l \in (k + 1)..Len(hs) :
          \/ Segment(hs[l]).title = <<>>
          \/ ~Contains(Segment(hs[k]).blob, Segment(hs[l]).title)

====
